---- MODULE Spec2Model ----
(***************************************************************************)
(* Model of src/server.js (resume optimizer backend).                      *)
(*                                                                         *)
(* Text is modelled as a sequence of tokens.  A token is one character     *)
(* (a brace, a quote, a backslash, a space ...) or an indivisible run of   *)
(* characters that the regular expressions of server.js only ever match    *)
(* as a whole (the word htmlres, a triple backtick, an opening html tag,   *)
(* amp; ...).  The functions of server.js are operators over such          *)
(* sequences, computed the way the code computes them.                     *)
(*                                                                         *)
(* Three specifications:                                                   *)
(*   SpecParse   parseAIResponse applied to bounded inputs                 *)
(*   SpecDecode  decodeHTMLContent applied once and then re-applied        *)
(*   Spec        concurrent requests to POST /api/optimize-resume and      *)
(*               POST /api/test-html-to-pdf, with convertHTMLtoPDF         *)
(***************************************************************************)
EXTENDS Integers, Sequences, FiniteSets, TLC

(***************************************************************************)
(* Tokens                                                                  *)
(***************************************************************************)
LB    == "{"
RB    == "}"
Q     == "dquote"
SQ    == "squote"
CO    == ":"
CM    == ","
BS    == "backslash"
SP    == "space"
NL    == "newline"
TAB   == "tab"
CR    == "return"
HK    == "htmlres"
FN    == "fence"
JS    == "json"
HT    == "html"
OT    == "<html"
OTU   == "<HTML"
CT    == "</html>"
CTU   == "</HTML>"
ZERO  == "0"
AMP   == "&"
LT    == "<"
GT    == ">"
X     == "x"
LN    == "n"
LTT   == "t"
LR    == "r"
QUOT  == "quot;"
AMPS  == "amp;"
LTS   == "lt;"
GTS   == "gt;"
APOS  == "#39;"

(***************************************************************************)
(* String primitives of JavaScript used by server.js                       *)
(***************************************************************************)
\* \s of the regular expressions, and the characters String.trim removes
IsWS(c) == c \in {SP, NL, TAB, CR}

\* index of the first non-whitespace token at or after i (Len(s)+1 if none)
RECURSIVE SkipWS(_, _)
SkipWS(s, i) ==
  IF i > Len(s) THEN Len(s) + 1
  ELSE IF IsWS(s[i]) THEN SkipWS(s, i + 1) ELSE i

\* index of the last non-whitespace token at or before i (0 if none)
RECURSIVE SkipWSBack(_, _)
SkipWSBack(s, i) ==
  IF i < 1 THEN 0
  ELSE IF IsWS(s[i]) THEN SkipWSBack(s, i - 1) ELSE i

\* String.prototype.trim
Trim(s) ==
  LET a == SkipWS(s, 1)
      b == SkipWSBack(s, Len(s))
  IN IF a > b THEN << >> ELSE SubSeq(s, a, b)

\* does the literal pat occur in s at index i
MatchAt(s, i, pat) ==
  /\ i >= 1
  /\ i + Len(pat) - 1 <= Len(s)
  /\ \A k \in 1..Len(pat) : s[i + k - 1] = pat[k]

\* does the literal pat occur somewhere in s
Contains(s, pat) == \E i \in 1..Len(s) : MatchAt(s, i, pat)

\* String.prototype.replace(/pat/g, rep) for a literal pattern: leftmost,
\* non-overlapping matches, scanning left to right
RECURSIVE ReplaceFrom(_, _, _, _)
ReplaceFrom(s, i, pat, rep) ==
  IF i > Len(s) THEN << >>
  ELSE IF MatchAt(s, i, pat)
       THEN rep \o ReplaceFrom(s, i + Len(pat), pat, rep)
       ELSE << s[i] >> \o ReplaceFrom(s, i + 1, pat, rep)

ReplaceAll(s, pat, rep) == ReplaceFrom(s, 1, pat, rep)

\* replace(/FENCE TAG \s* | \s* FENCE/g, empty), FENCE being the triple
\* backtick: at each position the first alternative
\* (fence, tag, trailing whitespace) is tried before the second (leading
\* whitespace, fence)
RECURSIVE StripFrom(_, _, _)
StripFrom(s, i, tag) ==
  IF i > Len(s) THEN << >>
  ELSE IF MatchAt(s, i, << FN, tag >>)
       THEN StripFrom(s, SkipWS(s, i + 2), tag)
       ELSE IF SkipWS(s, i) <= Len(s) /\ s[SkipWS(s, i)] = FN
            THEN StripFrom(s, SkipWS(s, i) + 1, tag)
            ELSE << s[i] >> \o StripFrom(s, i + 1, tag)

StripFences(s, tag) == StripFrom(s, 1, tag)

(***************************************************************************)
(* JSON.parse, for the JSON texts the tokens can spell: strings (with the  *)
(* escapes \" \\ \n \t \r), the number 0 and objects, nested to any depth. *)
(* A parsed value is [type, val]: for a string val is its decoded content, *)
(* for a number or an object val is its source text.                       *)
(***************************************************************************)
NoHr == [has |-> FALSE, type |-> "undefined", val |-> << >>]

JsonFail == [ok |-> FALSE, type |-> "undefined", val |-> << >>, next |-> 0, hr |-> NoHr]

\* the character an escape sequence \c stands for
Unescape(c) ==
  CASE c = Q   -> Q
    [] c = BS  -> BS
    [] c = LN  -> NL
    [] c = LTT -> TAB
    [] c = LR  -> CR

\* the rest of a string literal whose opening quote is at j - 1
RECURSIVE ScanString(_, _, _)
ScanString(s, j, acc) ==
  IF j > Len(s) THEN JsonFail
  ELSE IF s[j] = Q
       THEN [ok |-> TRUE, type |-> "string", val |-> acc, next |-> j + 1, hr |-> NoHr]
  ELSE IF s[j] = BS
       THEN IF j + 1 <= Len(s) /\ s[j + 1] \in {Q, BS, LN, LTT, LR}
            THEN ScanString(s, j + 2, Append(acc, Unescape(s[j + 1])))
            ELSE JsonFail
  ELSE IF s[j] \in {NL, TAB, CR} THEN JsonFail
  ELSE ScanString(s, j + 1, Append(acc, s[j]))

RECURSIVE ParseValue(_, _)
RECURSIVE ParseMembers(_, _, _, _)

\* a JSON value starting at i (whitespace already skipped)
ParseValue(s, i) ==
  IF i > Len(s) THEN JsonFail
  ELSE IF s[i] = Q THEN ScanString(s, i + 1, << >>)
  ELSE IF s[i] = ZERO
       THEN [ok |-> TRUE, type |-> "number", val |-> << ZERO >>, next |-> i + 1, hr |-> NoHr]
  ELSE IF s[i] = LB
       THEN IF SkipWS(s, i + 1) <= Len(s) /\ s[SkipWS(s, i + 1)] = RB
            THEN [ok |-> TRUE, type |-> "object",
                  val |-> SubSeq(s, i, SkipWS(s, i + 1)),
                  next |-> SkipWS(s, i + 1) + 1, hr |-> NoHr]
            ELSE ParseMembers(s, i, SkipWS(s, i + 1), NoHr)
  ELSE JsonFail

\* the members of the object opened at start, from the key at k on; hr is
\* the value of the last htmlres key seen so far (a later duplicate wins)
ParseMembers(s, start, k, hr) ==
  IF k > Len(s) \/ s[k] # Q THEN JsonFail
  ELSE
    LET key == ScanString(s, k + 1, << >>)
        c   == SkipWS(s, key.next)
    IN IF ~key.ok \/ c > Len(s) \/ s[c] # CO THEN JsonFail
       ELSE
         LET v   == ParseValue(s, SkipWS(s, c + 1))
             d   == SkipWS(s, v.next)
             hr2 == IF key.val = << HK >>
                    THEN [has |-> TRUE, type |-> v.type, val |-> v.val]
                    ELSE hr
         IN IF ~v.ok \/ d > Len(s) THEN JsonFail
            ELSE IF s[d] = RB
                 THEN [ok |-> TRUE, type |-> "object", val |-> SubSeq(s, start, d),
                       next |-> d + 1, hr |-> hr2]
            ELSE IF s[d] = CM THEN ParseMembers(s, start, SkipWS(s, d + 1), hr2)
            ELSE JsonFail

\* JSON.parse(text): one value, surrounded by optional whitespace
JSONParse(s) ==
  LET v == ParseValue(s, SkipWS(s, 1))
  IN IF v.ok /\ SkipWS(s, v.next) > Len(s) THEN v ELSE JsonFail

\* truthiness of a JavaScript value
Truthy(type, val) ==
  CASE type = "string"    -> val # << >>
    [] type = "number"    -> val # << ZERO >>
    [] type = "object"    -> TRUE
    [] type = "undefined" -> FALSE

(***************************************************************************)
(* parseAIResponse                                                         *)
(***************************************************************************)
\* the fence-stripped, trimmed response, and the slice(3, -3) branch taken
\* when it still starts and ends with a fence
CleanResponse(aiResponse) ==
  LET c == Trim(StripFences(aiResponse, JS))
  IN IF Len(c) >= 1 /\ c[1] = FN /\ c[Len(c)] = FN
     THEN IF Len(c) >= 2 THEN Trim(SubSeq(c, 2, Len(c) - 1)) ELSE << >>
     ELSE c

\* the end of the lazy capture group: the first quote at or after e that is
\* followed by optional whitespace and a closing brace (0 if there is none)
RECURSIVE CaptureEnd(_, _)
CaptureEnd(s, e) ==
  IF e > Len(s) THEN 0
  ELSE IF s[e] = Q /\ SkipWS(s, e + 1) <= Len(s) /\ s[SkipWS(s, e + 1)] = RB
       THEN e
       ELSE CaptureEnd(s, e + 1)

\* where the capture group starts if the key pattern
\* quote htmlres quote \s* : \s* quote   matches at p (0 if it does not)
KeyAt(s, p) ==
  IF ~MatchAt(s, p, << Q, HK, Q >>) THEN 0
  ELSE LET c == SkipWS(s, p + 3)
       IN IF c > Len(s) \/ s[c] # CO THEN 0
          ELSE LET q == SkipWS(s, c + 1)
               IN IF q > Len(s) \/ s[q] # Q THEN 0 ELSE q + 1

\* aiResponse.match of the htmlres pattern: the leftmost start position
\* from which the whole pattern matches
RECURSIVE HtmlresMatchFrom(_, _)
HtmlresMatchFrom(s, p) ==
  IF p > Len(s) THEN [found |-> FALSE, val |-> << >>]
  ELSE IF KeyAt(s, p) # 0 /\ CaptureEnd(s, KeyAt(s, p)) # 0
       THEN [found |-> TRUE,
             val |-> SubSeq(s, KeyAt(s, p), CaptureEnd(s, KeyAt(s, p)) - 1)]
       ELSE HtmlresMatchFrom(s, p + 1)

HtmlresMatch(s) == HtmlresMatchFrom(s, 1)

\* the i flag: the tags match in either case
IsOpenTag(c)  == c \in {OT, OTU}
IsCloseTag(c) == c \in {CT, CTU}

\* index of the first token at or after i satisfying the tag test (0 if none)
RECURSIVE FirstOpen(_, _)
FirstOpen(s, i) ==
  IF i > Len(s) THEN 0
  ELSE IF IsOpenTag(s[i]) THEN i ELSE FirstOpen(s, i + 1)

RECURSIVE FirstClose(_, _)
FirstClose(s, i) ==
  IF i > Len(s) THEN 0
  ELSE IF IsCloseTag(s[i]) THEN i ELSE FirstClose(s, i + 1)

\* index of the last closing tag after i (0 if none)
RECURSIVE LastClose(_, _)
LastClose(s, i) ==
  IF i < 1 THEN 0
  ELSE IF IsCloseTag(s[i]) THEN i ELSE LastClose(s, i - 1)

\* the span end a greedy quantifier would give
GreedyDirectEnd(s, p) == IF LastClose(s, Len(s)) > p THEN LastClose(s, Len(s)) ELSE 0

\* the end of the lazy html span opened at p
DirectEnd(s, p) == FirstClose(s, p + 1)

\* aiResponse.match of the direct html pattern (lazy, case-insensitive)
DirectHtmlMatch(s) ==
  LET p == FirstOpen(s, 1)
  IN IF p = 0 \/ DirectEnd(s, p) = 0
     THEN [found |-> FALSE, val |-> << >>]
     ELSE [found |-> TRUE, val |-> SubSeq(s, p, DirectEnd(s, p))]

Thrown == [via |-> "throw", type |-> "error", val |-> << >>]

\* does the JSON path return: the cleaned text parses and its htmlres
\* property is truthy
JsonPathReturns(j) == j.ok /\ Truthy(j.hr.type, j.hr.val)

\* parseAIResponse(aiResponse): the value returned and the strategy that
\* produced it, or Thrown
parseAIResponse(aiResponse) ==
  LET j == JSONParse(CleanResponse(aiResponse))
      m == HtmlresMatch(aiResponse)
      d == DirectHtmlMatch(aiResponse)
  IN IF JsonPathReturns(j)
     THEN [via |-> "json", type |-> j.hr.type, val |-> j.hr.val]
     ELSE IF m.found THEN [via |-> "regex", type |-> "string", val |-> m.val]
     ELSE IF d.found THEN [via |-> "direct", type |-> "string", val |-> d.val]
     ELSE Thrown

(***************************************************************************)
(* decodeHTMLContent                                                       *)
(***************************************************************************)
\* the chain with its fifth step removing every backslash
SubstitutionsStrippingBackslashes ==
  << << << BS, LN >>,    << NL >>  >>,
     << << BS, Q >>,     << Q >>   >>,
     << << BS, LTT >>,   << TAB >> >>,
     << << BS, LR >>,    << CR >>  >>,
     << << BS >>,        << >>     >>,
     << << BS, SQ >>,    << SQ >>  >>,
     << << AMP, QUOT >>, << Q >>   >>,
     << << AMP, AMPS >>, << AMP >> >>,
     << << AMP, LTS >>,  << LT >>  >>,
     << << AMP, GTS >>,  << GT >>  >>,
     << << AMP, APOS >>, << SQ >>  >> >>

\* the eleven substitutions, in the order of the replace chain
Substitutions ==
  << << << BS, LN >>,    << NL >>  >>,
     << << BS, Q >>,     << Q >>   >>,
     << << BS, LTT >>,   << TAB >> >>,
     << << BS, LR >>,    << CR >>  >>,
     << << BS, BS >>,    << BS >>  >>,
     << << BS, SQ >>,    << SQ >>  >>,
     << << AMP, QUOT >>, << Q >>   >>,
     << << AMP, AMPS >>, << AMP >> >>,
     << << AMP, LTS >>,  << LT >>  >>,
     << << AMP, GTS >>,  << GT >>  >>,
     << << AMP, APOS >>, << SQ >>  >> >>

\* the replace chain applied from substitution k on
RECURSIVE ApplyFrom(_, _, _)
ApplyFrom(s, subs, k) ==
  IF k > Len(subs) THEN s
  ELSE ApplyFrom(ReplaceAll(s, subs[k][1], subs[k][2]), subs, k + 1)

\* decodeHTMLContent(htmlContent) for a string argument
decodeHTMLContent(htmlContent) ==
  IF htmlContent = << >> THEN << >>
  ELSE ApplyFrom(htmlContent, Substitutions, 1)

(***************************************************************************)
(* convertHTMLtoPDF: the synchronous prefix                                *)
(***************************************************************************)
\* the emptiness test that guards the launch
IsEmptyContent(htmlContent) == htmlContent = << >> \/ Trim(htmlContent) = << >>

\* cleanHTML: trimmed, fences (optionally tagged html) removed, trimmed
CleanHTML(htmlContent) == Trim(StripFences(Trim(htmlContent), HT))

(***************************************************************************)
(* Bounds and input sets                                                   *)
(***************************************************************************)
MaxReqs      == 2
MaxFreeLen   == 3
MaxHtmlLen   == 5
MaxFields    == 2
MaxDecodeLen == 3

Reqs == 1..MaxReqs
NoBrowser == 0

\* all token sequences over alphabet a of length at most n
SeqsUpTo(a, n) == UNION { [1..k -> a] : k \in 0..n }

VARIABLES
  aiResponse, parsed, ppc,                 \* SpecParse
  htmlContent, decoded, redecoded, dpc,    \* SpecDecode
  pc, endpoint, hasFile, jobReq, status,   \* Spec: one entry per request
  html, conv, closing, outcome,            \* Spec: the convertHTMLtoPDF call of a request
  browserVar, open, launched, closedBy,    \* Spec: browsers
  disk, stored, fileRead                   \* Spec: uploaded files

parseVars  == << aiResponse, parsed, ppc >>
decodeVars == << htmlContent, decoded, redecoded, dpc >>
reqVars    == << pc, endpoint, hasFile, jobReq, status >>
convVars   == << html, conv, closing, outcome >>
brVars     == << browserVar, open, launched, closedBy >>
fileVars   == << disk, stored, fileRead >>
serverVars == << reqVars, convVars, brVars, fileVars >>
vars       == << parseVars, decodeVars, serverVars >>

ParseIdle ==
  /\ aiResponse = << >>
  /\ parsed = Thrown
  /\ ppc = "off"

DecodeIdle ==
  /\ htmlContent = << >>
  /\ decoded = << >>
  /\ redecoded = << >>
  /\ dpc = "off"

\* the server after app.listen: no request received, no browser, no upload
ServerInit ==
  /\ pc = [r \in Reqs |-> "idle"]
  /\ endpoint = [r \in Reqs |-> "none"]
  /\ hasFile = [r \in Reqs |-> FALSE]
  /\ jobReq = [r \in Reqs |-> FALSE]
  /\ status = [r \in Reqs |-> 0]
  /\ html = [r \in Reqs |-> << >>]
  /\ conv = [r \in Reqs |-> "none"]
  /\ closing = [r \in Reqs |-> NoBrowser]
  /\ outcome = [r \in Reqs |-> "none"]
  /\ browserVar = [r \in Reqs |-> NoBrowser]
  /\ open = {}
  /\ launched = {}
  /\ closedBy = [r \in Reqs |-> 0]
  /\ disk = {}
  /\ stored = {}
  /\ fileRead = {}

(***************************************************************************)
(* SpecParse: parseAIResponse applied to one AI reply                      *)
(***************************************************************************)
FreeAlphabet == {LB, RB, Q, CO, HK, X, SP, FN, JS, OT, CT}
HtmlAlphabet == {OT, OTU, CT, CTU, X}

\* the texts a field value is drawn from: the empty string, a plain string,
\* an html document, a string holding an escaped quote and a brace, a number
ValueTexts ==
  { << Q, Q >>,
    << Q, X, Q >>,
    << Q, OT, X, CT, Q >>,
    << Q, X, BS, Q, RB, X, Q >>,
    << ZERO >> }

Fields == [key : {HK, X}, val : ValueTexts]

FieldText(f) == << Q, f.key, Q, CO, SP >> \o f.val

RECURSIVE MembersText(_, _)
MembersText(fs, k) ==
  IF k > Len(fs) THEN << >>
  ELSE (IF k > 1 THEN << CM >> ELSE << >>) \o FieldText(fs[k]) \o MembersText(fs, k + 1)

\* the JSON text of an object with the fields fs, with or without its
\* closing brace
ObjectText(fs, closed) ==
  << LB >> \o MembersText(fs, 1) \o (IF closed THEN << RB >> ELSE << >>)

\* nothing, a tagged fence, an untagged fence, a tagged fence after a space
Prefixes == { << >>, << FN, JS, NL >>, << FN, NL >>, << SP, FN, JS, NL >> }
\* nothing, a closing fence, trailing garbage
Suffixes == { << >>, << NL, FN >>, << SP, X >> }

JsonInputs ==
  { pre \o ObjectText(fs, closed) \o post :
      pre \in Prefixes, fs \in SeqsUpTo(Fields, MaxFields),
      closed \in BOOLEAN, post \in Suffixes }

ParseInputs ==
  SeqsUpTo(FreeAlphabet, MaxFreeLen) \cup SeqsUpTo(HtmlAlphabet, MaxHtmlLen) \cup JsonInputs

InitParse ==
  /\ aiResponse \in ParseInputs
  /\ parsed = Thrown
  /\ ppc = "ready"
  /\ DecodeIdle
  /\ ServerInit

\* one call of parseAIResponse(aiResponse)
Parse ==
  /\ ppc = "ready"
  /\ parsed' = parseAIResponse(aiResponse)
  /\ ppc' = "done"
  /\ UNCHANGED << aiResponse, decodeVars, serverVars >>

NextParse == Parse

SpecParse == InitParse /\ [][NextParse]_vars

(***************************************************************************)
(* SpecDecode: decodeHTMLContent applied to a string, then to its result   *)
(***************************************************************************)
DecodeAlphabet == {BS, LN, LTT, LR, Q, SQ, AMP, QUOT, AMPS, LTS, GTS, APOS, X}

InitDecode ==
  /\ htmlContent \in SeqsUpTo(DecodeAlphabet, MaxDecodeLen)
  /\ decoded = << >>
  /\ redecoded = << >>
  /\ dpc = "ready"
  /\ ParseIdle
  /\ ServerInit

Decode ==
  /\ dpc = "ready"
  /\ decoded' = decodeHTMLContent(htmlContent)
  /\ dpc' = "once"
  /\ UNCHANGED << htmlContent, redecoded, parseVars, serverVars >>

Redecode ==
  /\ dpc = "once"
  /\ redecoded' = decodeHTMLContent(decoded)
  /\ dpc' = "twice"
  /\ UNCHANGED << htmlContent, decoded, parseVars, serverVars >>

NextDecode == Decode \/ Redecode

SpecDecode == InitDecode /\ [][NextDecode]_vars

(***************************************************************************)
(* Spec: the two endpoints that render, serving MaxReqs requests           *)
(* concurrently.  One action is one run of JavaScript between two awaits.  *)
(* The path of the upload of request r, unique per upload, is r; the       *)
(* browser launched by the call of request r is r.                         *)
(***************************************************************************)
\* the AI replies: a well-formed envelope, free text, an envelope whose html
\* is a lone fence, an envelope with an empty html, an envelope whose html
\* field is an object
Replies ==
  { << LB, Q, HK, Q, CO, SP, Q, OT, X, CT, Q, RB >>,
    << X >>,
    << LB, Q, HK, Q, CO, SP, Q, FN, Q, RB >>,
    << LB, Q, HK, Q, CO, SP, Q, Q, RB >>,
    << LB, Q, HK, Q, CO, SP, LB, RB, RB >> }

\* the html property of the body posted to /api/test-html-to-pdf
TestBodies ==
  { << >>, << SP >>, << FN >>, << SP, FN, HT, NL, FN >>, << OT, X, CT >> }

\* one browser variable declared at module level, shared by all calls
SharedBrowserVar(r) == 1

\* the variable a call of convertHTMLtoPDF keeps its browser in: declared
\* inside the function, so one per call
BrowserVar(r) == r

\* close placed after page.pdf inside the try block instead of in finally
NeedsCloseOnSuccess(b, result) == b # NoBrowser /\ result = "ok"

\* the finally block closes the browser if the variable holds one, whatever
\* the result (ok, or the stage that threw)
NeedsClose(b, result) == b # NoBrowser

\* fs.existsSync(path) && fs.unlinkSync(path)
Unlink(r) == disk \ {r}

\* the response is sent and the handler is over
Respond(r, code) ==
  /\ pc' = [pc EXCEPT ![r] = "done"]
  /\ status' = [status EXCEPT ![r] = code]

\* the handler after convertHTMLtoPDF returned (ok) or threw (else): the
\* success path or the catch block of the endpoint
AfterConvert(r, result) ==
  /\ conv' = [conv EXCEPT ![r] = IF result = "ok" THEN "returned" ELSE "threw"]
  /\ Respond(r, IF result = "ok" THEN 200 ELSE 500)
  /\ disk' = IF endpoint[r] = "optimize" THEN Unlink(r) ELSE disk

\* convertHTMLtoPDF(h) up to its first await: the emptiness test throws
\* (the finally block finds no browser), or puppeteer.launch is awaited.
\* ep is the endpoint calling it.
ConvertStart(r, ep, h) ==
  /\ html' = [html EXCEPT ![r] = h]
  /\ IF IsEmptyContent(h)
     THEN /\ conv' = [conv EXCEPT ![r] = "threw"]
          /\ Respond(r, 500)
          /\ disk' = IF ep = "optimize" THEN Unlink(r) ELSE disk
     ELSE /\ conv' = [conv EXCEPT ![r] = "running"]
          /\ pc' = [pc EXCEPT ![r] = "launch"]
          /\ UNCHANGED << status, disk >>

\* multer: an uploaded pdf is written to disk, another file type is
\* rejected with 400 by the error middleware, no file part stores nothing
Upload(r, file, job) ==
  /\ pc[r] = "idle"
  /\ endpoint' = [endpoint EXCEPT ![r] = "optimize"]
  /\ jobReq' = [jobReq EXCEPT ![r] = job]
  /\ hasFile' = [hasFile EXCEPT ![r] = (file = "pdf")]
  /\ IF file = "other"
     THEN Respond(r, 400) /\ UNCHANGED << disk, stored >>
     ELSE /\ pc' = [pc EXCEPT ![r] = "uploaded"]
          /\ disk' = IF file = "pdf" THEN disk \cup {r} ELSE disk
          /\ stored' = IF file = "pdf" THEN stored \cup {r} ELSE stored
          /\ UNCHANGED status
  /\ UNCHANGED << parseVars, decodeVars, convVars, brVars, fileRead >>

\* POST /api/optimize-resume up to its first await: the two 400 replies, or
\* getGeminiSuggestionsWithPDF reads the file and awaits the model
OptimizeStart(r) ==
  /\ pc[r] = "uploaded"
  /\ IF ~hasFile[r] \/ ~jobReq[r]
     THEN Respond(r, 400) /\ UNCHANGED fileRead
     ELSE /\ pc' = [pc EXCEPT ![r] = "ai"]
          /\ fileRead' = fileRead \cup {r}
          /\ UNCHANGED status
  /\ UNCHANGED << parseVars, decodeVars, endpoint, hasFile, jobReq, convVars,
                  brVars, disk, stored >>

\* the model call fails: getGeminiSuggestionsWithPDF throws, the catch block
\* of the handler removes the upload and answers 500
AIFails(r) ==
  /\ pc[r] = "ai"
  /\ Respond(r, 500)
  /\ disk' = Unlink(r)
  /\ UNCHANGED << parseVars, decodeVars, endpoint, hasFile, jobReq, convVars,
                  brVars, stored, fileRead >>

\* the model answers: parseAIResponse, decodeHTMLContent and the start of
\* convertHTMLtoPDF; a throw of the first two (no html recoverable, or a
\* value without a replace method) goes to the catch block
AIReturns(r, reply) ==
  /\ pc[r] = "ai"
  /\ LET p == parseAIResponse(reply)
     IN IF p.via = "throw" \/ p.type # "string"
        THEN /\ Respond(r, 500)
             /\ disk' = Unlink(r)
             /\ UNCHANGED << html, conv >>
        ELSE ConvertStart(r, "optimize", decodeHTMLContent(p.val))
  /\ UNCHANGED << parseVars, decodeVars, endpoint, hasFile, jobReq, closing,
                  outcome, brVars, stored, fileRead >>

\* POST /api/test-html-to-pdf up to its first await
TestStart(r, body) ==
  /\ pc[r] = "idle"
  /\ endpoint' = [endpoint EXCEPT ![r] = "test"]
  /\ IF body = << >>
     THEN Respond(r, 400) /\ UNCHANGED << html, conv, disk >>
     ELSE ConvertStart(r, "test", body)
  /\ UNCHANGED << parseVars, decodeVars, hasFile, jobReq, closing, outcome,
                  brVars, stored, fileRead >>

\* the catch and finally blocks of convertHTMLtoPDF after result (ok: the
\* pdf was generated, otherwise the stage that threw): browser.close() is
\* awaited, or there is nothing to close and the call is over
Finally(r, result) ==
  LET b == browserVar[BrowserVar(r)]
  IN /\ outcome' = [outcome EXCEPT ![r] = result]
     /\ IF NeedsClose(b, result)
        THEN /\ pc' = [pc EXCEPT ![r] = "closing"]
             /\ closing' = [closing EXCEPT ![r] = b]
             /\ UNCHANGED << status, conv, disk >>
        ELSE /\ AfterConvert(r, result)
             /\ UNCHANGED closing

\* puppeteer.launch resolves: the browser is running, newPage is awaited
LaunchOk(r) ==
  /\ pc[r] = "launch"
  /\ browserVar' = [browserVar EXCEPT ![BrowserVar(r)] = r]
  /\ open' = open \cup {r}
  /\ launched' = launched \cup {r}
  /\ pc' = [pc EXCEPT ![r] = "newPage"]
  /\ UNCHANGED << parseVars, decodeVars, endpoint, hasFile, jobReq, status,
                  convVars, closedBy, fileVars >>

\* puppeteer.launch rejects
LaunchFails(r) ==
  /\ pc[r] = "launch"
  /\ Finally(r, "launch")
  /\ UNCHANGED << parseVars, decodeVars, endpoint, hasFile, jobReq, html,
                  brVars, stored, fileRead >>

\* newPage, setContent resolve: the next stage is awaited
StageOk(r) ==
  /\ pc[r] \in {"newPage", "setContent"}
  /\ pc' = [pc EXCEPT ![r] = IF pc[r] = "newPage" THEN "setContent" ELSE "pdf"]
  /\ UNCHANGED << parseVars, decodeVars, endpoint, hasFile, jobReq, status,
                  convVars, brVars, fileVars >>

\* page.pdf resolves: return pdfBuffer, through the finally block
PdfOk(r) ==
  /\ pc[r] = "pdf"
  /\ Finally(r, "ok")
  /\ UNCHANGED << parseVars, decodeVars, endpoint, hasFile, jobReq, html,
                  brVars, stored, fileRead >>

\* newPage, setContent (also its 30 s timeout) or page.pdf rejects
StageFails(r) ==
  /\ pc[r] \in {"newPage", "setContent", "pdf"}
  /\ Finally(r, pc[r])
  /\ UNCHANGED << parseVars, decodeVars, endpoint, hasFile, jobReq, html,
                  brVars, stored, fileRead >>

\* browser.close() resolves: the browser is gone, convertHTMLtoPDF returns
\* or throws to the handler
CloseDone(r) ==
  /\ pc[r] = "closing"
  /\ open' = open \ {closing[r]}
  /\ closedBy' = [closedBy EXCEPT ![closing[r]] = r]
  /\ AfterConvert(r, outcome[r])
  /\ UNCHANGED << parseVars, decodeVars, endpoint, hasFile, jobReq, html,
                  closing, outcome, browserVar, launched, stored, fileRead >>

Init ==
  /\ ParseIdle
  /\ DecodeIdle
  /\ ServerInit

Next ==
  \/ \E r \in Reqs, file \in {"pdf", "other", "none"}, job \in BOOLEAN : Upload(r, file, job)
  \/ \E r \in Reqs : OptimizeStart(r)
  \/ \E r \in Reqs : AIFails(r)
  \/ \E r \in Reqs, reply \in Replies : AIReturns(r, reply)
  \/ \E r \in Reqs, body \in TestBodies : TestStart(r, body)
  \/ \E r \in Reqs : LaunchOk(r)
  \/ \E r \in Reqs : LaunchFails(r)
  \/ \E r \in Reqs : StageOk(r)
  \/ \E r \in Reqs : PdfOk(r)
  \/ \E r \in Reqs : StageFails(r)
  \/ \E r \in Reqs : CloseDone(r)

Spec == Init /\ [][Next]_vars

(***************************************************************************)
(* Claims                                                                  *)
(***************************************************************************)
Stages == {"newPage", "setContent", "pdf"}

\* C1: a call of convertHTMLtoPDF that launched a browser has closed it by
\* the time the call has returned or thrown, whichever stage ended it; a
\* call that returned a pdf did launch one, and a call left the closing
\* step only by closing.
C1_BrowserClosedOnEveryExit ==
  \A r \in Reqs :
    /\ (conv[r] \in {"returned", "threw"} /\ r \in launched) => r \notin open
    /\ conv[r] = "returned" => (r \in launched /\ outcome[r] = "ok")
    /\ (conv[r] = "threw" /\ outcome[r] \in Stages) => (r \in launched /\ closedBy[r] # 0)

\* one call returned its pdf and another threw at setContent, both with
\* their browsers closed
C1_Witness ==
  \E r1, r2 \in Reqs :
    /\ conv[r1] = "returned" /\ outcome[r1] = "ok"
    /\ conv[r2] = "threw" /\ outcome[r2] = "setContent"
    /\ {r1, r2} \subseteq launched
    /\ open = {}

\* C2: a call of convertHTMLtoPDF whose input is empty after trimming and
\* after stripping fence markers has thrown and has not launched a browser.
C2_EmptyAfterCleaningNeverLaunches ==
  \A r \in Reqs :
    (conv[r] # "none" /\ CleanHTML(html[r]) = << >>) =>
      (conv[r] = "threw" /\ pc[r] # "launch" /\ r \notin launched)

\* C3: when the fence-stripped reply is valid JSON with an htmlres field
\* holding a string, the result is exactly that string.
C3_JsonFieldPreferred ==
  ppc = "done" =>
    LET j == JSONParse(CleanResponse(aiResponse))
    IN (j.ok /\ j.hr.has /\ j.hr.type = "string") =>
         (parsed.type = "string" /\ parsed.val = j.hr.val)

\* the closing quote of the string literal whose content starts at j: the
\* first quote not preceded by an escaping backslash (0 if there is none)
RECURSIVE LiteralEnd(_, _)
LiteralEnd(s, j) ==
  IF j > Len(s) THEN 0
  ELSE IF s[j] = Q THEN j
  ELSE IF s[j] = BS THEN LiteralEnd(s, j + 2)
  ELSE LiteralEnd(s, j + 1)

\* the positions where the field pattern (key, colon, quoted value) occurs
FieldPositions(s) ==
  { p \in 1..Len(s) : KeyAt(s, p) # 0 /\ LiteralEnd(s, KeyAt(s, p)) # 0 }

MinOf(S) == CHOOSE m \in S : \A n \in S : m <= n
MaxOf(S) == CHOOSE m \in S : \A n \in S : m >= n

\* the content of the first htmlres field of s, up to its closing quote
FieldValue(s) ==
  LET a == KeyAt(s, MinOf(FieldPositions(s)))
  IN IF LiteralEnd(s, a) = a THEN << >> ELSE SubSeq(s, a, LiteralEnd(s, a) - 1)

\* C4: when the reply is not valid JSON but contains the field pattern, the
\* result is the whole content of that field.
C4_RegexRecoversWholeValue ==
  (/\ ppc = "done"
   /\ ~JSONParse(CleanResponse(aiResponse)).ok
   /\ FieldPositions(aiResponse) # {}) =>
     (parsed.type = "string" /\ parsed.val = FieldValue(aiResponse))

OpenPositions(s)  == { i \in 1..Len(s) : s[i] \in {OT, OTU} }
ClosePositions(s) == { i \in 1..Len(s) : s[i] \in {CT, CTU} }

\* s holds an opening html tag with a closing html tag somewhere after it
HasHtmlSpan(s) ==
  \E i \in OpenPositions(s), k \in ClosePositions(s) : i < k

\* the reply is no JSON text and holds no htmlres key pattern
NoJsonEnvelope(s) ==
  /\ ~JSONParse(CleanResponse(s)).ok
  /\ \A p \in 1..Len(s) : KeyAt(s, p) = 0

SpanStart(s)    == MinOf(OpenPositions(s))
SpanFirstEnd(s) == MinOf({ k \in ClosePositions(s) : k > SpanStart(s) })
SpanLastEnd(s)  == MaxOf(ClosePositions(s))

\* C5 as stated: the result is the span from the first opening tag to the
\* last closing tag.
C5_OutermostSpan ==
  (ppc = "done" /\ NoJsonEnvelope(aiResponse) /\ HasHtmlSpan(aiResponse)) =>
    parsed = [via |-> "direct", type |-> "string",
              val |-> SubSeq(aiResponse, SpanStart(aiResponse), SpanLastEnd(aiResponse))]

\* C5 amended: for a reply with no JSON envelope that holds an html span,
\* the result is, verbatim, the span from the first opening tag (either
\* case) to the first closing tag after it.
C5_SpanToFirstClose ==
  (ppc = "done" /\ NoJsonEnvelope(aiResponse) /\ HasHtmlSpan(aiResponse)) =>
    parsed = [via |-> "direct", type |-> "string",
              val |-> SubSeq(aiResponse, SpanStart(aiResponse), SpanFirstEnd(aiResponse))]

\* a reply with text before the span, an upper-case tag and two closing
\* tags has been parsed
C5_Witness ==
  /\ ppc = "done"
  /\ NoJsonEnvelope(aiResponse) /\ HasHtmlSpan(aiResponse)
  /\ SpanStart(aiResponse) > 1
  /\ aiResponse[SpanStart(aiResponse)] = OTU
  /\ SpanFirstEnd(aiResponse) < SpanLastEnd(aiResponse)
  /\ parsed.via = "direct"

\* the fence markers a reply may be wrapped in: tagged json or untagged,
\* with whitespace around them
FenceOpeners == { << FN, JS, NL >>, << FN, NL >>, << SP, FN, JS, NL >> }
FenceClosers == { << NL, FN >> }

\* C6: a reply made of a valid JSON text j with an htmlres field between
\* fence markers parses to what j alone parses to; and stripping fences
\* from a text without fences changes nothing.
C6_FenceWrappingTransparent ==
  ppc = "done" =>
    /\ \A pre \in FenceOpeners, post \in FenceClosers :
         (/\ Len(aiResponse) > Len(pre) + Len(post)
          /\ MatchAt(aiResponse, 1, pre)
          /\ MatchAt(aiResponse, Len(aiResponse) - Len(post) + 1, post)) =>
           LET j == SubSeq(aiResponse, Len(pre) + 1, Len(aiResponse) - Len(post))
           IN (JSONParse(j).ok /\ JSONParse(j).hr.has) =>
                (/\ parsed.type = parseAIResponse(j).type
                 /\ parsed.val = parseAIResponse(j).val)
    /\ (\A i \in 1..Len(aiResponse) : aiResponse[i] # FN) =>
         StripFences(aiResponse, JS) = aiResponse

\* C7: two backslashes followed by n decode to one backslash followed by n.
C7_DoubleBackslashN ==
  (dpc # "ready" /\ htmlContent = << BS, BS, LN >>) => decoded = << BS, LN >>

\* the eleven escape and entity sequences a normalized text is free of
EscapeSequences ==
  { << BS, LN >>, << BS, Q >>, << BS, LTT >>, << BS, LR >>, << BS, BS >>,
    << BS, SQ >>, << AMP, QUOT >>, << AMP, AMPS >>, << AMP, LTS >>,
    << AMP, GTS >>, << AMP, APOS >> }

AlreadyNormalized(s) == \A e \in EscapeSequences : ~Contains(s, e)

\* C8 as stated: decoding the decoded text changes nothing.
C8_Idempotent ==
  dpc = "twice" => redecoded = decoded

\* C8 amended: decodeHTMLContent leaves unchanged every text that holds none
\* of the eleven escape and entity sequences.
C8_NormalizedUnchanged ==
  (dpc # "ready" /\ AlreadyNormalized(htmlContent)) => decoded = htmlContent

\* a normalized text holding a lone backslash and a lone ampersand has been
\* decoded
C8_Witness ==
  /\ dpc = "once"
  /\ AlreadyNormalized(htmlContent)
  /\ Contains(htmlContent, << BS >>)
  /\ Contains(htmlContent, << AMP >>)

\* C9: every call reads and closes only the browser it launched, the
\* browser of a call that is rendering is open, there are no more open
\* browsers than calls in flight, and none once every request is over.
C9_BrowsersIsolated ==
  /\ \A b \in Reqs : closedBy[b] # 0 => closedBy[b] = b
  /\ \A r \in Reqs : pc[r] = "closing" => closing[r] = r
  /\ \A r \in Reqs :
       pc[r] \in Stages => (browserVar[BrowserVar(r)] = r /\ r \in open)
  /\ Cardinality(open) <= Cardinality({ r \in Reqs : conv[r] = "running" })
  /\ (\A r \in Reqs : pc[r] = "done") => open = {}

\* one call has closed its browser and is over while another, launched
\* meanwhile, is still rendering with its own browser open
C9_Witness ==
  \E r1, r2 \in Reqs :
    /\ r1 # r2
    /\ pc[r1] = "done" /\ closedBy[r1] = r1
    /\ pc[r2] = "pdf" /\ r2 \in open

\* C10: a request whose upload was stored ends with the file deleted, and a
\* stored file is deleted only after the AI call has read it.
C10_UploadDeletedOnEveryOutcome ==
  \A r \in Reqs :
    /\ (pc[r] = "done" /\ r \in stored) => r \notin disk
    /\ (r \in stored /\ r \notin disk) => r \in fileRead

====
